---- MODULE Spec2Model ----
(***************************************************************************)
(* A model of assemble_grading_comments.py: the comment extractor, the     *)
(* score aggregator, and the directory walker with its report writer.      *)
(*                                                                         *)
(* Text is modelled as sequences of tokens.  The marker literal            *)
(* '### Grading:' is the single token "M"; a digit, a blank, the slash and *)
(* any other character are one token each.  A path is a token sequence in  *)
(* which "/" separates the names; a file name is a stem token followed by  *)
(* a suffix token (<<"a", ".py">>).                                        *)
(***************************************************************************)
EXTENDS Integers, Sequences, FiniteSets, TLC

VARIABLES
    comments,   \* the argument of the latest compute_score_totals call
    totals,     \* what that call returned

    fs,         \* the file system: directories, files, and what fails in it
    call,       \* the latest extract / compute_totals_in_directory call and its outcome
    diag,       \* the diagnostics printed during the latest call
    runs        \* how many directory scans have been made

vars == <<comments, totals, fs, call, diag, runs>>

(***************************************************************************)
(* Tokens                                                                  *)
(***************************************************************************)
GRADING_MARKER == "M"

REPORT_FILE_NAME == <<"grading_report", ".txt">>

PY_SUFFIX == ".py"

\* str.strip() and the regular expression's \s
Whitespace == {" "}

\* int() on one decimal digit
DigitValue ==
    [d \in {"0", "1", "2", "3", "4", "5", "6", "7", "8", "9"} |->
        CASE d = "0" -> 0 [] d = "1" -> 1 [] d = "2" -> 2 [] d = "3" -> 3
          [] d = "4" -> 4 [] d = "5" -> 5 [] d = "6" -> 6 [] d = "7" -> 7
          [] d = "8" -> 8 [] d = "9" -> 9]

DigitChar == <<"0", "1", "2", "3", "4", "5", "6", "7", "8", "9">>

IsSpace(t) == t \in Whitespace

IsDigit(t) == t \in DOMAIN DigitValue

(***************************************************************************)
(* Bounds                                                                  *)
(***************************************************************************)
\* tokens of a comment when it is the only one passed to the aggregator
MaxLen == 8

\* tokens of each comment when two are passed
MaxShort == 4

\* comments passed to the aggregator
MaxComments == 2

\* scans of the same tree with the same arguments
MaxRuns == 2

\* faults (unlistable / unwritable directory, unreadable file) present in a tree
MaxFaults == 1

\* the characters a comment is built from
ScoreAlphabet == {"M", " ", "1", "2", "/", "x"}

(***************************************************************************)
(* compute_score_totals                                                    *)
(***************************************************************************)
\* \s* : the end of the run of whitespace that starts at i
RECURSIVE SkipSpaces(_, _)
SkipSpaces(s, i) ==
    IF i <= Len(s) /\ IsSpace(s[i]) THEN SkipSpaces(s, i + 1) ELSE i

\* \d+ : the end of the run of digits that starts at i
RECURSIVE SkipDigits(_, _)
SkipDigits(s, i) ==
    IF i <= Len(s) /\ IsDigit(s[i]) THEN SkipDigits(s, i + 1) ELSE i

\* int(str) of a digit string
RECURSIVE IntOf(_)
IntOf(ds) ==
    IF ds = <<>> THEN 0
    ELSE 10 * IntOf(SubSeq(ds, 1, Len(ds) - 1)) + DigitValue[ds[Len(ds)]]

\* pattern.match at position i: marker \s* (\d+) \s* / \s* (\d+).  The
\* character classes are disjoint, so the greedy runs are the only way the
\* pattern can match and backtracking finds nothing else.
MatchAt(s, i) ==
    LET a == SkipSpaces(s, i + 1)
        b == SkipDigits(s, a)
        c == SkipSpaces(s, b)
        d == SkipSpaces(s, c + 1)
        e == SkipDigits(s, d)
    IN  IF /\ i <= Len(s)
           /\ s[i] = GRADING_MARKER
           /\ b > a
           /\ c <= Len(s)
           /\ s[c] = "/"
           /\ e > d
        THEN [ok |-> TRUE, obtained |-> SubSeq(s, a, b - 1),
              possible |-> SubSeq(s, d, e - 1), end |-> e]
        ELSE [ok |-> FALSE, obtained |-> <<>>, possible |-> <<>>, end |-> i]

\* pattern.findall(c) from position i on: the matches left to right, the
\* scan resuming where the previous match ended
RECURSIVE FindAllFrom(_, _)
FindAllFrom(s, i) ==
    IF i > Len(s) THEN <<>>
    ELSE LET m == MatchAt(s, i)
         IN  IF m.ok
             THEN <<<<m.obtained, m.possible>>>> \o FindAllFrom(s, m.end)
             ELSE FindAllFrom(s, i + 1)

\* a scan that stops at the first match (pattern.search)
FindFirst(s) ==
    LET all == FindAllFrom(s, 1)
    IN  IF all = <<>> THEN <<>> ELSE <<all[1]>>

\* matches = pattern.findall(c)
FindAll(s) == FindAllFrom(s, 1)

AddPair(x, y) == <<x[1] + y[1], x[2] + y[2]>>

\* the inner loop: total_obtained += int(obtained_str) ...
RECURSIVE SumMatches(_)
SumMatches(ms) ==
    IF ms = <<>> THEN <<0, 0>>
    ELSE AddPair(<<IntOf(ms[1][1]), IntOf(ms[1][2])>>, SumMatches(Tail(ms)))

\* the outer loop over the comments
RECURSIVE compute_score_totals(_)
compute_score_totals(cs) ==
    IF cs = <<>> THEN <<0, 0>>
    ELSE AddPair(SumMatches(FindAll(cs[1])), compute_score_totals(Tail(cs)))

(***************************************************************************)
(* Paths (posixpath) and their order                                       *)
(***************************************************************************)
SEP == "/"

\* the tokens of paths in the order Python compares the strings they stand for
TokenOrder ==
    <<".csv", ".py", ".txt", "/", "a", "b", "e", "grading_report",
      "grading_summary", "n", "nodir", "oth", "sub", "subsub", "top", "zz">>

RankTable ==
    [t \in {TokenOrder[i] : i \in 1..Len(TokenOrder)} |->
        CHOOSE i \in 1..Len(TokenOrder) : TokenOrder[i] = t]

Rank(t) == RankTable[t]

\* p < q as Python compares two strings
RECURSIVE LessPath(_, _)
LessPath(p, q) ==
    IF q = <<>> THEN FALSE
    ELSE IF p = <<>> THEN TRUE
    ELSE IF p[1] = q[1] THEN LessPath(Tail(p), Tail(q))
    ELSE Rank(p[1]) < Rank(q[1])

\* sorted(S)
RECURSIVE Sorted(_)
Sorted(S) ==
    IF S = {} THEN <<>>
    ELSE LET m == CHOOSE x \in S : \A y \in S \ {x} : LessPath(x, y)
         IN  <<m>> \o Sorted(S \ {m})

\* the index of the last separator of p, 0 when it has none
RECURSIVE LastSep(_, _)
LastSep(p, i) == IF i = 0 \/ p[i] = SEP THEN i ELSE LastSep(p, i - 1)

\* p.rstrip('/')
RECURSIVE RStripSep(_)
RStripSep(p) ==
    IF p # <<>> /\ p[Len(p)] = SEP THEN RStripSep(SubSeq(p, 1, Len(p) - 1)) ELSE p

\* os.path.join(a, b) for a relative b
Join(a, b) ==
    IF a = <<>> \/ a[Len(a)] = SEP THEN a \o b ELSE a \o <<SEP>> \o b

\* os.path.dirname(p): the head up to the last separator, its trailing
\* separators removed unless it consists of separators only
DirName(p) ==
    LET head == SubSeq(p, 1, LastSep(p, Len(p)))
    IN  IF RStripSep(head) # <<>> THEN RStripSep(head) ELSE head

\* os.path.basename(p)
BaseName(p) == SubSeq(p, LastSep(p, Len(p)) + 1, Len(p))

\* name.endswith('.py')
EndsWithPy(name) == name # <<>> /\ name[Len(name)] = PY_SUFFIX

\* a filter that lets every name through
EndsWithAnything(name) == TRUE

\* the suffix test of the walker
IsQualifying(name) == EndsWithPy(name)

(***************************************************************************)
(* The file system.  A node is the sequence of the names on the way to it, *)
(* which is what the operating system resolves a path to: empty components *)
(* (doubled or trailing separators) do not count.                          *)
(***************************************************************************)
RECURSIVE Components(_)
Components(p) ==
    IF p = <<>> THEN <<>>
    ELSE IF p[1] = SEP THEN Components(Tail(p))
    ELSE LET n == CHOOSE k \in 1..Len(p) :
                     /\ \A j \in 1..k : p[j] # SEP
                     /\ (k = Len(p) \/ p[k + 1] = SEP)
         IN  <<SubSeq(p, 1, n)>> \o Components(SubSeq(p, n + 1, Len(p)))

Parent(node) == SubSeq(node, 1, Len(node) - 1)

\* the names directly inside the directory at node
ChildDirs(F, node) == {d[Len(d)] : d \in {x \in F.dirs : x # <<>> /\ Parent(x) = node}}

ChildFiles(F, node) ==
    {f[Len(f)] : f \in {x \in DOMAIN F.files : Parent(x) = node}}

\* os.listdir / os.scandir succeed
CanList(F, path) == Components(path) \in F.dirs \ F.nolist

\* what reading a file delivers before it ends or fails
ReadableLines(file) ==
    IF file.fault = "none" THEN file.lines
    ELSE IF file.fault = "denied" THEN <<>>
    ELSE SubSeq(file.lines, 1, file.at)

(***************************************************************************)
(* extract_grading_comments_from_file                                      *)
(***************************************************************************)
\* line.strip()
RECURSIVE LStrip(_)
LStrip(s) == IF s # <<>> /\ IsSpace(s[1]) THEN LStrip(Tail(s)) ELSE s

RECURSIVE RStrip(_)
RStrip(s) ==
    IF s # <<>> /\ IsSpace(s[Len(s)]) THEN RStrip(SubSeq(s, 1, Len(s) - 1)) ELSE s

Strip(s) == LStrip(RStrip(s))

\* GRADING_MARKER in line_text
HasMarker(s) == \E i \in 1..Len(s) : s[i] = GRADING_MARKER

\* line_text.index(GRADING_MARKER)
MarkerIndex(s) ==
    CHOOSE i \in 1..Len(s) :
        s[i] = GRADING_MARKER /\ \A j \in 1..(i - 1) : s[j] # GRADING_MARKER

\* the comment kept for a stripped line: the line from its marker on
ExtractedComment(line_text) ==
    IF line_text # <<>> /\ HasMarker(line_text)
    THEN <<Strip(SubSeq(line_text, MarkerIndex(line_text), Len(line_text)))>>
    ELSE <<>>

\* the loop over the lines, for the lines that were read
RECURSIVE GradingComments(_)
GradingComments(lines) ==
    IF lines = <<>> THEN <<>>
    ELSE ExtractedComment(Strip(lines[1])) \o GradingComments(Tail(lines))

\* open() fails: FileNotFoundError for a missing path, another OSError for
\* a directory
OpenFailed(F, node, file_name) ==
    [comments |-> <<>>, raised |-> "",
     diag |-> {[kind |-> IF node \in F.dirs THEN "read_oserror" ELSE "not_found",
                path |-> file_name]}]

\* The file was found.  A file that may not be opened raises OSError at
\* open(); a read error surfaces as OSError while iterating, after the
\* lines before it were appended; undecodable bytes surface as
\* UnicodeDecodeError, which is a ValueError and matches neither except
\* clause, so it leaves the function.
ReadOutcome(file, file_name) ==
    CASE file.fault = "none" ->
            [comments |-> GradingComments(file.lines), raised |-> "", diag |-> {}]
      [] file.fault = "denied" ->
            [comments |-> <<>>, raised |-> "",
             diag |-> {[kind |-> "read_oserror", path |-> file_name]}]
      [] file.fault = "eio" ->
            [comments |-> GradingComments(SubSeq(file.lines, 1, file.at)),
             raised |-> "",
             diag |-> {[kind |-> "read_oserror", path |-> file_name]}]
      [] file.fault = "baddata" ->
            [comments |-> <<>>, raised |-> "UnicodeDecodeError", diag |-> {}]

ExtractAt(F, node, file_name) ==
    IF node \notin DOMAIN F.files THEN OpenFailed(F, node, file_name)
    ELSE ReadOutcome(F.files[node], file_name)

\* the call: the comments returned and the diagnostic printed, or the
\* exception that leaves the function
extract_grading_comments_from_file(F, file_name) ==
    ExtractAt(F, Components(file_name), file_name)

(***************************************************************************)
(* compute_totals_in_directory: the walk                                   *)
(***************************************************************************)
\* os.walk(top): nothing for a directory that cannot be scanned (onerror is
\* None, so the error is dropped), else the directory's own entry followed
\* by the walks of its subdirectories
RECURSIVE WalkTree(_, _)
RECURSIVE WalkSubdirs(_, _, _)
WalkTree(F, top) ==
    IF ~CanList(F, top) THEN <<>>
    ELSE <<[root |-> top, files |-> Sorted(ChildFiles(F, Components(top)))]>>
            \o WalkSubdirs(F, top, Sorted(ChildDirs(F, Components(top))))

WalkSubdirs(F, top, dirs) ==
    IF dirs = <<>> THEN <<>>
    ELSE WalkTree(F, Join(top, dirs[1])) \o WalkSubdirs(F, top, Tail(dirs))

\* a walk that stops at the directory it was given
WalkTopOnly(F, top) ==
    IF ~CanList(F, top) THEN <<>>
    ELSE <<[root |-> top, files |-> Sorted(ChildFiles(F, Components(top)))]>>

\* walker = os.walk(directory_path)
Walk(F, top) == WalkTree(F, top)

\* the single entry of the non-recursive listing: the names for which
\* os.path.isfile holds
ListingEntry(F, directory_path) ==
    <<[root |-> directory_path,
       files |-> Sorted(ChildFiles(F, Components(directory_path)))]>>

\* the paths the inner loop hands to the extractor for one entry
EntryPaths(root, names) == [i \in 1..Len(names) |-> Join(root, names[i])]

\* the paths the two nested loops hand to the extractor, in order
RECURSIVE QualifyingPaths(_)
QualifyingPaths(entries) ==
    IF entries = <<>> THEN <<>>
    ELSE EntryPaths(entries[1].root, SelectSeq(entries[1].files, IsQualifying))
            \o QualifyingPaths(Tail(entries))

NoResults == [p \in {} |-> <<>>]

\* the end of the loop body: add to the totals, and keep the file's result
\* when a table is wanted
Tally(acc, path, keep, x, t) ==
    [total_obtained |-> acc.total_obtained + t[1],
     total_possible |-> acc.total_possible + t[2],
     per_file_results |->
        IF keep THEN (path :> <<x.comments, t>>) @@ acc.per_file_results
        ELSE acc.per_file_results,
     diag |-> acc.diag \cup x.diag,
     raised |-> ""]

\* the loop body for one qualifying path: extract, then aggregate.  An
\* exception leaving the extractor leaves the walker too.
AfterExtract(acc, path, keep, x) ==
    IF x.raised # ""
    THEN [acc EXCEPT !.raised = x.raised, !.diag = @ \cup x.diag]
    ELSE Tally(acc, path, keep, x, compute_score_totals(x.comments))

RECURSIVE ProcessFiles(_, _, _, _)
ProcessFiles(F, paths, keep, acc) ==
    IF paths = <<>> \/ acc.raised # "" THEN acc
    ELSE ProcessFiles(F, Tail(paths), keep,
            AfterExtract(acc, paths[1], keep,
                         extract_grading_comments_from_file(F, paths[1])))

(***************************************************************************)
(* compute_totals_in_directory: the report                                 *)
(***************************************************************************)
\* str(n) for n >= 0
RECURSIVE Digits(_)
Digits(n) == IF n < 10 THEN <<DigitChar[n + 1]>> ELSE Digits(n \div 10) \o <<DigitChar[(n % 10) + 1]>>

ScoreText(o, p) == Digits(o) \o <<" ", "/", " ">> \o Digits(p)

\* files_in_dir = [p for p in sorted(per_file_results) if os.path.dirname(p) == d]
FilesInDir(per_file_results, d) ==
    Sorted({p \in DOMAIN per_file_results : DirName(p) = d})

\* the lines written for one file, given its entry in the table
FileSection(p, result) ==
    <<<<"File: ">> \o BaseName(p)>>
        \o result[1]
        \o <<<<"Total for ">> \o BaseName(p) \o <<":", " ">>
                \o ScoreText(result[2][1], result[2][2]),
             <<>>>>

\* the loop over files_in_dir: the sections written, and grand_obt, grand_pos
RECURSIVE FileSections(_, _)
FileSections(per_file_results, ps) ==
    IF ps = <<>> THEN <<>>
    ELSE FileSection(ps[1], per_file_results[ps[1]])
            \o FileSections(per_file_results, Tail(ps))

RECURSIVE SumResults(_, _)
SumResults(per_file_results, ps) ==
    IF ps = <<>> THEN <<0, 0>>
    ELSE AddPair(per_file_results[ps[1]][2], SumResults(per_file_results, Tail(ps)))

GrandTotalLine(grand) == <<"Grand total: ">> \o ScoreText(grand[1], grand[2])

ReportBody(per_file_results, d, files_in_dir) ==
    <<<<"Grading report for directory: ">> \o BaseName(d), <<>>>>
        \o FileSections(per_file_results, files_in_dir)
        \o <<GrandTotalLine(SumResults(per_file_results, files_in_dir))>>

\* everything written to the report of directory d
ReportLines(per_file_results, d) ==
    ReportBody(per_file_results, d, FilesInDir(per_file_results, d))

\* open(report_path, 'w') succeeds
CanWrite(F, d) == Components(d) \in F.dirs \ F.nowrite

TextFile(lines) == [lines |-> lines, fault |-> "none", at |-> 0]

\* a file opened for appending: the lines are added to those it holds
WithFileAppended(F, path, lines) ==
    [F EXCEPT !.files =
        (Components(path) :>
            TextFile((IF Components(path) \in DOMAIN @ THEN @[Components(path)].lines
                      ELSE <<>>) \o lines)) @@ @]

\* open(path, 'w') and the writes: the file at path is replaced
WithFile(F, path, lines) ==
    [F EXCEPT !.files = (Components(path) :> TextFile(lines)) @@ @]

ReportDiag(d) == {[kind |-> "report_oserror", path |-> Join(d, REPORT_FILE_NAME)]}

\* a writer that gives up at the first report it cannot open
RECURSIVE WriteReportsUntilFailure(_, _, _, _)
WriteReportsUntilFailure(F, ds, per_file_results, out) ==
    IF ds = <<>> THEN [fs |-> F, diag |-> out]
    ELSE IF CanWrite(F, ds[1])
    THEN WriteReportsUntilFailure(WithFile(F, Join(ds[1], REPORT_FILE_NAME),
                                           ReportLines(per_file_results, ds[1])),
                                  Tail(ds), per_file_results, out)
    ELSE [fs |-> F, diag |-> out \cup ReportDiag(ds[1])]

\* the loop over sorted(dirs_to_report): each report is written, or the
\* failure to open it is printed and the loop goes on
RECURSIVE WriteReports(_, _, _, _)
WriteReports(F, ds, per_file_results, out) ==
    IF ds = <<>> THEN [fs |-> F, diag |-> out]
    ELSE IF CanWrite(F, ds[1])
    THEN WriteReports(WithFile(F, Join(ds[1], REPORT_FILE_NAME),
                               ReportLines(per_file_results, ds[1])),
                      Tail(ds), per_file_results, out)
    ELSE WriteReports(F, Tail(ds), per_file_results, out \cup ReportDiag(ds[1]))

\* the directories of the tabled files, in either mode
DirsOfTabledFiles(args, per_file_results) ==
    {DirName(p) : p \in DOMAIN per_file_results}

\* dirs_to_report
DirsToReport(args, per_file_results) ==
    IF args.recursive
    THEN {DirName(p) : p \in DOMAIN per_file_results}
    ELSE {args.directory_path}

\* the write_report block
ReportBlock(F, args, per_file_results) ==
    IF args.write_report
    THEN WriteReports(F, Sorted(DirsToReport(args, per_file_results)), per_file_results, {})
    ELSE [fs |-> F, diag |-> {}]

(***************************************************************************)
(* The summary writer.  The module under src/ has no write_summary         *)
(* parameter; the writer is modelled from the specification's section 4.5  *)
(* and from the two tests that call it.                                    *)
(***************************************************************************)
SUMMARY_FILE_NAME == <<"grading_summary", ".csv">>

SummaryHeader == <<"Directory", ",", "TotalObtained", ",", "TotalPossible">>

IsPrefix(a, b) == Len(a) <= Len(b) /\ SubSeq(b, 1, Len(a)) = a

\* the path of a node below the scan root, relative to the root
RECURSIVE JoinNames(_)
JoinNames(names) ==
    IF names = <<>> THEN <<>>
    ELSE IF Len(names) = 1 THEN names[1]
    ELSE names[1] \o <<SEP>> \o JoinNames(Tail(names))

\* the label of a visited directory: its path relative to the scan root,
\* the root itself by its base name
SummaryLabel(directory_path, root) ==
    LET top == Components(directory_path)
        node == Components(root)
    IN  IF node = top THEN top[Len(top)]
        ELSE JoinNames(SubSeq(node, Len(top) + 1, Len(node)))

\* the roll-up of one visited directory: every tabled file at or below it
RollUp(table, root) ==
    SumResults(table,
        Sorted({p \in DOMAIN table : IsPrefix(Components(root), Components(DirName(p)))}))

RowText(label, t) == label \o <<",">> \o Digits(t[1]) \o <<",">> \o Digits(t[2])

SummaryRow(directory_path, table, root) ==
    RowText(SummaryLabel(directory_path, root), RollUp(table, root))

SummaryRows(directory_path, table, entries) ==
    [i \in 1..Len(entries) |-> SummaryRow(directory_path, table, entries[i].root)]

\* the write_summary block: one row per directory the walk visited, written
\* at the scan root; `rep` is what the report block left
SummaryBlock(rep, args, entries, table) ==
    IF ~(args.write_summary /\ args.recursive) THEN rep
    ELSE IF CanWrite(rep.fs, args.directory_path)
    THEN [fs |-> WithFile(rep.fs, Join(args.directory_path, SUMMARY_FILE_NAME),
                          <<SummaryHeader>>
                              \o SummaryRows(args.directory_path, table, entries)),
          diag |-> rep.diag]
    ELSE [fs |-> rep.fs,
          diag |-> rep.diag \cup {[kind |-> "summary_oserror",
                                   path |-> Join(args.directory_path, SUMMARY_FILE_NAME)]}]

(***************************************************************************)
(* compute_totals_in_directory: the whole call                             *)
(***************************************************************************)
NoTotals == [total_obtained |-> 0, total_possible |-> 0,
             per_file_results |-> NoResults, diag |-> {}, raised |-> ""]

\* the value returned after the walk
ReturnValue(args, acc) ==
    IF args.report_per_file
    THEN <<acc.total_obtained, acc.total_possible, acc.per_file_results>>
    ELSE <<acc.total_obtained, acc.total_possible>>

\* the return of the branch taken when os.listdir fails
ListingFailedReturn(args) == <<0, 0>>

\* the table the summary is computed from
SummaryTable(F, args, entries) ==
    IF args.write_summary /\ args.recursive
    THEN ProcessFiles(F, QualifyingPaths(entries), TRUE, NoTotals).per_file_results
    ELSE NoResults

\* the normal end of the call: what was returned, written and printed
Returned(args, acc, out) ==
    [kind |-> "return", ret |-> ReturnValue(args, acc), fs |-> out.fs,
     diag |-> acc.diag \cup out.diag]

\* after the loops: an exception that left the loop leaves the call with
\* nothing written; else the report block, the summary block and the return
AfterWalk(F, args, entries, acc) ==
    IF acc.raised # ""
    THEN [kind |-> acc.raised, ret |-> <<>>, fs |-> F, diag |-> acc.diag]
    ELSE Returned(args, acc,
            SummaryBlock(ReportBlock(F, args, acc.per_file_results), args, entries,
                         SummaryTable(F, args, entries)))

WalkAndProcess(F, args, entries) ==
    AfterWalk(F, args, entries,
        ProcessFiles(F, QualifyingPaths(entries),
                     args.report_per_file \/ args.write_report, NoTotals))

compute_totals_in_directory(F, args) ==
    IF ~args.recursive /\ ~CanList(F, args.directory_path)
    THEN [kind |-> "return", ret |-> ListingFailedReturn(args), fs |-> F,
          diag |-> {[kind |-> "list_oserror", path |-> args.directory_path]}]
    ELSE WalkAndProcess(F, args,
            IF args.recursive THEN Walk(F, args.directory_path)
            ELSE ListingEntry(F, args.directory_path))

(***************************************************************************)
(* The trees scanned                                                       *)
(***************************************************************************)
TOP == <<<<"top">>>>

SUB == <<<<"top">>, <<"sub">>>>

SUBSUB == <<<<"top">>, <<"sub">>, <<"subsub">>>>

OTH == <<<<"top">>, <<"oth">>>>

A_PY == <<"a", ".py">>

B_PY == <<"b", ".py">>

E_PY == <<"e", ".py">>

N_TXT == <<"n", ".txt">>

DirSets ==
    {{TOP}, {TOP, SUB}, {TOP, SUB, SUBSUB}, {TOP, OTH}, {TOP, SUB, OTH},
     {TOP, SUB, SUBSUB, OTH}}

\* the sets of files a directory may hold
Menu(d) ==
    CASE d = TOP -> {{}, {N_TXT}, {A_PY, B_PY}, {A_PY, B_PY, N_TXT}}
      [] d = SUB -> {{}, {A_PY}, {A_PY, E_PY}}
      [] d = SUBSUB -> {{}, {A_PY}}
      [] OTHER -> {{A_PY}}

\* what each file holds
Content(node) ==
    CASE node = Append(TOP, A_PY) ->
            <<<<"x">>, <<" ", "x", "M", " ", "4", "/", "5", " ">>, <<"M", "1", "/", "1">>>>
      [] node = Append(TOP, B_PY) -> <<<<"M", " ", "2", "/", "2">>>>
      [] node = Append(TOP, N_TXT) -> <<<<"M", "7", "/", "9">>>>
      [] node = Append(SUB, A_PY) ->
            <<<<"M", "2", "/", "3", " ", "M", "1", "0", "/", "1", "0">>>>
      [] node = Append(SUB, E_PY) -> <<<<"x">>, <<>>>>
      [] node = Append(SUBSUB, A_PY) ->
            <<<<"M", " ", "1", " ", "/", " ", "4">>, <<"M", "x">>>>
      [] OTHER -> <<<<"x", "M", "2", "0", "/", "2", "0">>>>

\* the sets of at most k elements of U
RECURSIVE UpTo(_, _)
UpTo(U, k) ==
    IF k = 0 THEN {{}}
    ELSE LET smaller == UpTo(U, k - 1)
         IN  smaller \cup {S \cup {x} : S \in smaller, x \in U}

\* what may fail in a tree: listing a directory, creating a file in it,
\* opening a file, reading its last line, decoding its last line
FaultsOf(ds, fileNodes) ==
    {[what |-> w, node |-> d] : w \in {"nolist", "nowrite"}, d \in ds}
        \cup {[what |-> w, node |-> f] : w \in {"denied", "eio", "baddata"},
                                        f \in {x \in fileNodes : EndsWithPy(x[Len(x)])}}

MakeFs(ds, pick, faults) ==
    LET fileNodes == UNION {{Append(d, n) : n \in pick[d]} : d \in ds}
        faultOf(f) ==
            IF \E x \in faults : x.node = f
            THEN (CHOOSE x \in faults : x.node = f).what
            ELSE "none"
    IN  [dirs |-> ds,
         files |-> [f \in fileNodes |->
                      [lines |-> Content(f), fault |-> faultOf(f),
                       at |-> IF faultOf(f) \in {"eio", "baddata"}
                              THEN Len(Content(f)) - 1 ELSE 0]],
         nolist |-> {x.node : x \in {y \in faults : y.what = "nolist"}},
         nowrite |-> {x.node : x \in {y \in faults : y.what = "nowrite"}}]

Trees ==
    UNION {UNION {{MakeFs(ds, pick, faults) :
                      faults \in {S \in UpTo(FaultsOf(ds, UNION {{Append(d, n) : n \in pick[d]} : d \in ds}), MaxFaults) :
                                    \A x, y \in S : x.node = y.node => x = y}}
                  : pick \in {f \in [ds -> SUBSET {A_PY, B_PY, E_PY, N_TXT}] :
                                \A d \in ds : f[d] \in Menu(d)}}
           : ds \in DirSets}

\* the directory_path arguments: the tree's top, the same with a trailing
\* separator, a subdirectory, and a directory that does not exist
RootArgs == {<<"top">>, <<"top", "/">>, <<"top", "/", "sub">>, <<"nodir">>}

ScanArgs ==
    [directory_path : RootArgs, recursive : BOOLEAN, report_per_file : BOOLEAN,
     write_report : BOOLEAN, write_summary : BOOLEAN]

\* the path of a node, as the walker would build it from "top"
PathOf(node) == JoinNames(node)

MissingFile == <<"top", "/", "zz", ".py">>

(***************************************************************************)
(* Actions                                                                 *)
(***************************************************************************)
NoCall == [op |-> "none", args |-> <<>>, kind |-> "", ret |-> <<>>]

Init ==
    /\ fs \in Trees
    /\ call = NoCall
    /\ diag = {}
    /\ runs = 0
    /\ comments = <<>>
    /\ totals = <<0, 0>>

\* the outcome of an extractor call, as the caller sees it
ExtractReturned(file_name, x) ==
    /\ call' = [op |-> "extract", args |-> file_name,
                kind |-> IF x.raised = "" THEN "return" ELSE x.raised,
                ret |-> x.comments]
    /\ diag' = x.diag

\* a caller extracts the comments of one file of the tree, or of a missing
\* one; the extractor reads the tree and changes nothing, so it is explored
\* on the tree as it is before any scan
Extract(file_name) ==
    /\ call.op # "scan"
    /\ ExtractReturned(file_name, extract_grading_comments_from_file(fs, file_name))
    /\ UNCHANGED <<fs, runs, comments, totals>>

\* the outcome of a scan, as the caller and the file system see it
ScanReturned(args, out) ==
    /\ call' = [op |-> "scan", args |-> args, kind |-> out.kind, ret |-> out.ret]
    /\ diag' = out.diag
    /\ fs' = out.fs

\* a caller scans the tree; a later scan repeats the arguments of the first
Scan(args) ==
    /\ runs < MaxRuns
    /\ call.op # "extract"
    /\ runs > 0 => args = call.args
    /\ ScanReturned(args, compute_totals_in_directory(fs, args))
    /\ runs' = runs + 1
    /\ UNCHANGED <<comments, totals>>

Next ==
    \/ \E args \in ScanArgs : Scan(args)
    \/ \E f \in {PathOf(n) : n \in DOMAIN fs.files} \cup {MissingFile} : Extract(f)

Spec == Init /\ [][Next]_vars

(***************************************************************************)
(* The aggregator on its own: comments are built token by token and the    *)
(* aggregator is applied to every list built.                              *)
(***************************************************************************)
\* the length a comment may grow to
CommentCap(cs) == IF Len(cs) = 1 THEN MaxLen ELSE MaxShort

AppendToken(t) ==
    /\ comments # <<>>
    /\ Len(comments[Len(comments)]) < CommentCap(comments)
    /\ comments' = [comments EXCEPT ![Len(comments)] = Append(@, t)]
    /\ totals' = compute_score_totals(comments')
    /\ UNCHANGED <<fs, call, diag, runs>>

NewComment ==
    /\ Len(comments) < MaxComments
    /\ \A i \in 1..Len(comments) : Len(comments[i]) <= MaxShort
    /\ comments' = Append(comments, <<>>)
    /\ totals' = compute_score_totals(comments')
    /\ UNCHANGED <<fs, call, diag, runs>>

(***************************************************************************)
(* What the pattern denotes, stated without a scan: an occurrence starts   *)
(* at a marker and is marker, blanks, digits, blanks, slash, blanks,       *)
(* digits, the last digit run taken whole.                                 *)
(***************************************************************************)
AllSpaces(s, i, j) == \A k \in i..j : IsSpace(s[k])

AllDigits(s, i, j) == i <= j /\ \A k \in i..j : IsDigit(s[k])

\* the occurrences that start at the marker at i, as <<i, a, b, d, e>>:
\* obtained digits at a..b, possible digits at d..e
OccurrencesAt(s, i) ==
    LET n == Len(s)
        As == {a \in (i + 1)..n : AllSpaces(s, i + 1, a - 1) /\ IsDigit(s[a])}
        Bs(a) == {b \in a..n : AllDigits(s, a, b)}
        Cs(b) == {c \in (b + 1)..n : AllSpaces(s, b + 1, c - 1) /\ s[c] = "/"}
        Ds(c) == {d \in (c + 1)..n : AllSpaces(s, c + 1, d - 1) /\ IsDigit(s[d])}
        Es(d) == {e \in d..n : AllDigits(s, d, e) /\ (e = n \/ ~IsDigit(s[e + 1]))}
    IN  UNION {UNION {UNION {UNION {{<<i, a, b, d, e>> : e \in Es(d)}
            : d \in Ds(c)} : c \in Cs(b)} : b \in Bs(a)} : a \in As}

Occurrences(s) ==
    UNION {OccurrencesAt(s, i) : i \in {k \in 1..Len(s) : s[k] = GRADING_MARKER}}

RECURSIVE Pow10(_)
Pow10(n) == IF n = 0 THEN 1 ELSE 10 * Pow10(n - 1)

RECURSIVE PlaceValue(_, _, _)
PlaceValue(s, i, j) ==
    IF i > j THEN 0 ELSE DigitValue[s[i]] * Pow10(j - i) + PlaceValue(s, i + 1, j)

RECURSIVE SumOccurrences(_, _)
SumOccurrences(s, os) ==
    IF os = {} THEN <<0, 0>>
    ELSE LET o == CHOOSE x \in os : TRUE
             r == SumOccurrences(s, os \ {o})
         IN  <<PlaceValue(s, o[2], o[3]) + r[1], PlaceValue(s, o[4], o[5]) + r[2]>>

\* the pairs of one string
PairsOf(s) == SumOccurrences(s, Occurrences(s))

RECURSIVE PairsOfAll(_)
PairsOfAll(cs) ==
    IF cs = <<>> THEN <<0, 0>>
    ELSE LET h == PairsOf(cs[1])
             r == PairsOfAll(Tail(cs))
         IN  <<h[1] + r[1], h[2] + r[2]>>

\* C2: compute_score_totals returns the sum of obtained and the sum of
\* possible over every occurrence of the pattern in every string, all the
\* occurrences of one string included; the empty sequence gives (0, 0).
C2_TotalsSumEveryOccurrence == totals = PairsOfAll(comments)

\* a string holding two occurrences has been aggregated
C2_Witness ==
    /\ Len(comments) = 1
    /\ Cardinality(Occurrences(comments[1])) = 2
    /\ totals = <<3, 3>>

(***************************************************************************)
(* What a scan is expected to do, stated on the tree itself                *)
(***************************************************************************)
ScanReturnedNormally == call.op = "scan" /\ call.kind = "return"

ScanRoot == Components(call.args.directory_path)

Listable(D) == D \in fs.dirs \ fs.nolist

\* the directories a scan visits: the root, and in recursive mode every
\* directory below it that is reached through directories that can be listed
VisitedDirs ==
    IF call.args.recursive
    THEN {D \in fs.dirs :
            /\ IsPrefix(ScanRoot, D)
            /\ \A k \in Len(ScanRoot)..Len(D) : Listable(SubSeq(D, 1, k))}
    ELSE {D \in {ScanRoot} : Listable(D)}

\* the files whose name ends with the suffix
SuffixFiles == {n \in DOMAIN fs.files : n[Len(n)][Len(n[Len(n)])] = ".py"}

\* the files a scan processes
ProcessedFiles == {n \in SuffixFiles : Parent(n) \in VisitedDirs}

ProcessedIn(D) == {n \in ProcessedFiles : Parent(n) = D}

ProcessedBelow(D) == {n \in ProcessedFiles : IsPrefix(D, Parent(n))}

\* the marker score pairs in the lines read from a file
FileAggregate(n) == PairsOfAll(ReadableLines(fs.files[n]))

RECURSIVE SumAggregates(_)
SumAggregates(S) ==
    IF S = {} THEN <<0, 0>>
    ELSE LET n == CHOOSE x \in S : TRUE
         IN  AddPair(FileAggregate(n), SumAggregates(S \ {n}))

ReturnedTotals == <<call.ret[1], call.ret[2]>>

\* "<digits> / <digits>" read back as a pair of numbers
ParseScore(ts) ==
    LET i == CHOOSE k \in 1..Len(ts) : ts[k] = "/"
    IN  <<IntOf(SubSeq(ts, 1, i - 2)), IntOf(SubSeq(ts, i + 2, Len(ts)))>>

ReportNode(D) == Append(D, REPORT_FILE_NAME)

HasReport(D) == ReportNode(D) \in DOMAIN fs.files

ReportOf(D) == fs.files[ReportNode(D)].lines

\* the names after "File: " in a report
ListedNames(lines) ==
    {Tail(lines[i]) : i \in {k \in 1..Len(lines) : lines[k] # <<>> /\ lines[k][1] = "File: "}}

\* the pair on the report's last line
GrandTotalOf(lines) == ParseScore(Tail(lines[Len(lines)]))

\* a diagnostic of the given kind was printed for the directory or file at node
Diagnosed(kind, node) ==
    \E m \in diag : m.kind = kind /\ Components(m.path) = node

\* C5: the totals returned are the sum, over the files with the suffix, of
\* the marker score pairs in the file's lines, each file once: the files
\* directly inside the root in non-recursive mode, those directly inside
\* every directory reachable from the root in recursive mode; other files
\* contribute nothing.
C5_TotalsSumQualifyingFiles ==
    ScanReturnedNormally => ReturnedTotals = SumAggregates(ProcessedFiles)

\* a recursive scan of top counted files of three levels and passed over n.txt
C5_Witness ==
    /\ ScanReturnedNormally
    /\ call.args.recursive
    /\ ScanRoot = TOP
    /\ Append(TOP, N_TXT) \in DOMAIN fs.files
    /\ {Append(TOP, A_PY), Append(SUB, A_PY), Append(SUBSUB, A_PY)} \subseteq ProcessedFiles
    /\ \A n \in DOMAIN fs.files : fs.files[n].fault = "none"
    /\ OTH \notin fs.dirs
    /\ Append(SUB, E_PY) \in ProcessedFiles
    /\ ReturnedTotals = <<20, 25>>

(***************************************************************************)
(* The summary                                                             *)
(***************************************************************************)
SummaryNode == Append(ScanRoot, SUMMARY_FILE_NAME)

SummaryLines == fs.files[SummaryNode].lines

\* the label the summary gives a visited directory
LabelOf(D) ==
    IF D = ScanRoot THEN D[Len(D)]
    ELSE JoinNames(SubSeq(D, Len(ScanRoot) + 1, Len(D)))

\* the rows of the summary that carry the label
RowsLabelled(label) ==
    {i \in 2..Len(SummaryLines) :
        /\ Len(SummaryLines[i]) > Len(label)
        /\ SubSeq(SummaryLines[i], 1, Len(label) + 1) = label \o <<",">>}

SummaryAsked ==
    /\ ScanReturnedNormally
    /\ call.args.recursive
    /\ call.args.write_summary
    /\ ScanRoot \in fs.dirs \ fs.nowrite

\* the row's two numbers, read back from the text after the label
RowTotals(i, label) ==
    LET ts == SubSeq(SummaryLines[i], Len(label) + 2, Len(SummaryLines[i]))
        c == CHOOSE k \in 1..Len(ts) : ts[k] = ","
    IN  <<IntOf(SubSeq(ts, 1, c - 1)), IntOf(SubSeq(ts, c + 1, Len(ts)))>>

ReportAsked == ScanReturnedNormally /\ call.args.write_report

\* C3: whatever the root path argument and the mode, every report written
\* into a directory D lists exactly the processed files directly inside D
\* and its Grand total is the sum of those files' aggregates, nothing of
\* the subdirectories; in non-recursive mode the root's Grand total is the
\* totals the call returns.
C3_ReportReflectsOwnFiles ==
    ReportAsked =>
        \A D \in fs.dirs :
            HasReport(D) =>
                /\ ListedNames(ReportOf(D)) = {n[Len(n)] : n \in ProcessedIn(D)}
                /\ GrandTotalOf(ReportOf(D)) = SumAggregates(ProcessedIn(D))
                /\ (~call.args.recursive /\ D = ScanRoot) =>
                        GrandTotalOf(ReportOf(D)) = ReturnedTotals

\* a report was opened in D, for writing, during the scan
ReportAttempted(D) == HasReport(D) \/ Diagnosed("report_oserror", ReportNode(D))

AllWritable == compute_totals_in_directory([fs EXCEPT !.nowrite = {}], call.args)

\* C8: when writing the report of one directory fails, a diagnostic is
\* printed, the reports of the other directories are still written with
\* their content, and the totals returned are what they would have been
\* without the failure.
C8_WriteFailureIsIsolated ==
    ReportAsked =>
        /\ call.ret = AllWritable.ret
        /\ \A D \in fs.dirs :
              ReportNode(D) \in DOMAIN AllWritable.fs.files =>
                  IF D \in fs.nowrite
                  THEN Diagnosed("report_oserror", ReportNode(D))
                  ELSE /\ HasReport(D)
                       /\ ReportOf(D) = AllWritable.fs.files[ReportNode(D)].lines

\* the report of top could not be written and those of sub and oth were
C8_Witness ==
    /\ ReportAsked
    /\ call.args.recursive
    /\ TOP \in fs.nowrite
    /\ Diagnosed("report_oserror", ReportNode(TOP))
    /\ ~HasReport(TOP)
    /\ HasReport(SUB)
    /\ HasReport(OTH)
    /\ ReturnedTotals[1] > 0

ExtractedUnreadable ==
    /\ call.op = "extract"
    /\ \/ Components(call.args) \notin DOMAIN fs.files
       \/ fs.files[Components(call.args)].fault # "none"

\* C6: for a file that does not exist or cannot be read, a read failing
\* part-way and undecodable content included, the extractor prints a
\* diagnostic, returns an empty sequence and raises nothing.
C6_ExtractFailsSoftly ==
    ExtractedUnreadable =>
        /\ call.kind = "return"
        /\ call.ret = <<>>
        /\ diag # {}

\* the directories the walk comes upon and cannot list
UnlistableMet ==
    {D \in {ScanRoot} \cup fs.dirs :
        /\ ~Listable(D)
        /\ \/ D = ScanRoot
           \/ call.args.recursive /\ Parent(D) \in VisitedDirs}

\* C7: every directory that cannot be listed is skipped with a diagnostic
\* printed for it, in recursive mode as in non-recursive mode, and the
\* files of the remaining directories are still counted.
C7_UnlistableIsDiagnosed ==
    call.op = "scan" =>
        /\ call.kind = "return" => ReturnedTotals = SumAggregates(ProcessedFiles)
        /\ \A D \in UnlistableMet : Diagnosed("list_oserror", D)

\* C10: with report_per_file the call returns a triple on every exit path,
\* (0, 0, empty table) when the root cannot be listed, and the table has
\* one entry per processed file, files without marker lines included,
\* whose aggregates sum to the totals.
C10_TripleOnEveryPath ==
    (ScanReturnedNormally /\ call.args.report_per_file) =>
        /\ Len(call.ret) = 3
        /\ {Components(p) : p \in DOMAIN call.ret[3]} = ProcessedFiles
        /\ Cardinality(DOMAIN call.ret[3]) = Cardinality(ProcessedFiles)
        /\ \A p \in DOMAIN call.ret[3] :
              call.ret[3][p][2] = FileAggregate(Components(p))
        /\ ReturnedTotals = SumAggregates(ProcessedFiles)

ScoreInit ==
    /\ comments = <<>>
    /\ totals = compute_score_totals(comments)
    /\ fs = MakeFs({TOP}, [d \in {TOP} |-> {}], {})
    /\ call = NoCall
    /\ diag = {}
    /\ runs = 0

ScoreNext == NewComment \/ \E t \in ScoreAlphabet : AppendToken(t)

SpecScore == ScoreInit /\ [][ScoreNext]_vars

====
